---- MODULE Spec2Model ----
(***************************************************************************)
(* Model of stats/book-lists/batch_compatibility_analyzer.py:              *)
(* ReadingCompatibilityAnalyzer (normalize_title, get_primary_author,      *)
(* calculate_compatibility, generate_diagnosis, process_all_files,         *)
(* save_results, save_summary_csv) and the __main__ driver.                *)
(*                                                                         *)
(* Text is a sequence of one-character strings.  A missing cell (pandas    *)
(* NaN) is the value NaN below, which is no text.                          *)
(***************************************************************************)
EXTENDS Integers, Sequences, FiniteSets, TLC

VARIABLES
    pc,             \* position of the caller driving the analyzer
    title,          \* normalize_title: the input text
    normalized,     \* normalize_title(title)
    renormalized,   \* normalize_title(normalize_title(title))
    person1_df,     \* calculate_compatibility: the first reading list
    person2_df,     \* calculate_compatibility: the second reading list
    result12,       \* calculate_compatibility(person1, person2)
    result21,       \* calculate_compatibility(person2, person1)
    locals12,       \* the locals scores and total_score of the first call
    locals21,       \* the locals scores and total_score of the swapped call
    results,        \* self.results
    computed,       \* history: every result in the order it was appended
    before,         \* history: self.results when the last process_all_files began
    ret,            \* what the last process_all_files returned: None or self.results
    printed,        \* the lines the last call printed
    people_data,    \* the dict people_data of the last process_all_files
    csv_files,      \* the files the last process_all_files found
    json_out,       \* the content written by save_results
    csv_out,        \* the rows written by save_summary_csv
    files_seen      \* how many files process_all_files has found so far

normalizeVars == <<title, normalized, renormalized>>
scoreVars == <<person1_df, person2_df, result12, result21, locals12, locals21>>
batchVars == <<results, computed, before, ret, printed, people_data, csv_files,
               json_out, csv_out, files_seen>>
vars == <<pc, normalizeVars, scoreVars, batchVars>>

----------------------------------------------------------------------------
(* Characters and the str / re primitives the code uses.                   *)

UpperChars == <<"A","B","C","D","E","F","G","H","I","J","K","L","M",
                "N","O","P","Q","R","S","T","U","V","W","X","Y","Z">>
LowerChars == <<"a","b","c","d","e","f","g","h","i","j","k","l","m",
                "n","o","p","q","r","s","t","u","v","w","x","y","z">>
DigitChars == <<"0","1","2","3","4","5","6","7","8","9">>

Range(s) == {s[i] : i \in DOMAIN s}

NaN == <<"NaN">>

isna(x) == x = NaN

LetterChars == Range(UpperChars) \cup Range(LowerChars)

\* regex class \w (Python 3 str pattern): alphanumerics and the underscore
WordChars == LetterChars \cup Range(DigitChars) \cup {"_"}

IsWordChar(c) == c \in WordChars

\* regex class \s, which is also what str.split() and str.strip() treat as blank
IsSpaceChar(c) == c \in {" ", "\t", "\n", "\r"}

\* c.lower() of one character
LowerOf == [c \in Range(UpperChars) |->
               LowerChars[CHOOSE i \in DOMAIN UpperChars : UpperChars[i] = c]]

lower_char(c) == IF c \in DOMAIN LowerOf THEN LowerOf[c] ELSE c

str_lower(s) == [i \in DOMAIN s |-> lower_char(s[i])]

\* re.sub(r'[^\w\s]', '', s)
re_sub_nonword(s) == SelectSeq(s, LAMBDA c : IsWordChar(c) \/ IsSpaceChar(c))

\* length of the leading run of non-blank characters of s
RECURSIVE WordLen(_)
WordLen(s) ==
    IF s = <<>> \/ IsSpaceChar(Head(s)) THEN 0 ELSE 1 + WordLen(Tail(s))

\* s.split(): the maximal non-blank runs of s, in order
RECURSIVE str_split(_)
str_split(s) ==
    IF s = <<>> THEN <<>>
    ELSE IF IsSpaceChar(Head(s)) THEN str_split(Tail(s))
    ELSE LET n == WordLen(s)
         IN  <<SubSeq(s, 1, n)>> \o str_split(SubSeq(s, n + 1, Len(s)))

\* sep.join(words)
RECURSIVE str_join(_, _)
str_join(sep, words) ==
    IF words = <<>> THEN <<>>
    ELSE IF Len(words) = 1 THEN words[1]
    ELSE words[1] \o sep \o str_join(sep, Tail(words))

\* s.strip()
RECURSIVE str_lstrip(_)
str_lstrip(s) ==
    IF s # <<>> /\ IsSpaceChar(Head(s)) THEN str_lstrip(Tail(s)) ELSE s

RECURSIVE str_rstrip(_)
str_rstrip(s) ==
    IF s # <<>> /\ IsSpaceChar(s[Len(s)]) THEN str_rstrip(SubSeq(s, 1, Len(s) - 1)) ELSE s

str_strip(s) == str_rstrip(str_lstrip(s))

\* s.split(sep)[0] for a one-character sep: the text before the first sep
RECURSIVE split_first(_, _)
split_first(s, sep) ==
    IF s = <<>> \/ Head(s) = sep THEN <<>> ELSE <<Head(s)>> \o split_first(Tail(s), sep)

----------------------------------------------------------------------------
(* Normalizer                                                              *)

\* a slip that lets blank runs through unchanged (no split/join)
normalize_title_nojoin(t) ==
    IF isna(t) THEN <<>> ELSE re_sub_nonword(str_lower(t))

normalize_title(t) ==
    IF isna(t) THEN <<>>
    ELSE str_join(<<" ">>, str_split(re_sub_nonword(str_lower(t))))

get_primary_author(author_str) ==
    IF isna(author_str) THEN <<>>
    ELSE str_lower(str_strip(split_first(author_str, "+")))

----------------------------------------------------------------------------
(* Numbers.  The code computes in floating point; the model computes every *)
(* ratio and score as an integer count of millionths (Scale = 1.0),        *)
(* dividing last and rounding down.  Percentages rounded to one decimal    *)
(* are integer tenths of a percent, scores rounded to three decimals are   *)
(* integer thousandths.                                                    *)

Scale == 1000 * 1000

Min(a, b) == IF a <= b THEN a ELSE b
Max(a, b) == IF a >= b THEN a ELSE b
Abs(a) == IF a < 0 THEN -a ELSE a

\* x / unit rounded to the nearest integer, halves to the even one (round())
Round(x, unit) ==
    LET q == x \div unit
        r == x % unit
    IN  IF 2 * r > unit \/ (2 * r = unit /\ q % 2 = 1) THEN q + 1 ELSE q

\* the largest k in lo..hi with k * k <= n
RECURSIVE ISqrt(_, _, _)
ISqrt(n, lo, hi) ==
    IF lo >= hi THEN lo
    ELSE LET mid == (lo + hi + 1) \div 2
         IN  IF mid * mid <= n THEN ISqrt(n, mid, hi) ELSE ISqrt(n, lo, mid - 1)

\* np.sqrt of a ratio in 0..Scale, to four decimals
np_sqrt(x) == ISqrt(x * 100, 0, 10000) * 100

----------------------------------------------------------------------------
(* Categorizer: the status-based sets built at the top of                  *)
(* calculate_compatibility.  A DataFrame is [columns, rows]; rows is a     *)
(* sequence of records [Title, Author, Status].                            *)

FinishedStatuses == {"finished", "currently_reading"}

\* person_df[person_df['Status'] != 'deleted']
not_deleted(df) == SelectSeq(df.rows, LAMBDA r : r.Status # "deleted")

TitlesWhere(rows, statuses) ==
    {normalize_title(rows[i].Title) : i \in {j \in DOMAIN rows : rows[j].Status \in statuses}}

AuthorsWhere(rows, statuses) ==
    {get_primary_author(rows[i].Author) : i \in {j \in DOMAIN rows : rows[j].Status \in statuses}}

AllStatuses(rows) == {rows[i].Status : i \in DOMAIN rows}

books_of(df) ==
    LET rows == not_deleted(df)
    IN  [finished       |-> TitlesWhere(rows, FinishedStatuses),
         want_to_read   |-> TitlesWhere(rows, {"want_to_read"}),
         did_not_finish |-> TitlesWhere(rows, {"did_not_finish"}),
         all            |-> TitlesWhere(rows, AllStatuses(rows))]

authors_of(df) ==
    LET rows == not_deleted(df)
    IN  [finished |-> AuthorsWhere(rows, FinishedStatuses) \ {<<>>},
         all      |-> AuthorsWhere(rows, AllStatuses(rows)) \ {<<>>}]

----------------------------------------------------------------------------
(* ScoreEngine: the six pre-weighted components.                           *)

shared_finished_score(books1, books2) ==
    LET n1 == Cardinality(books1.finished)
        n2 == Cardinality(books2.finished)
        shared_finished == books1.finished \cap books2.finished
    IN  IF n1 + n2 > 0
        THEN LET s == IF Min(n1, n2) > 0
                      THEN (Cardinality(shared_finished) * Scale) \div Min(n1, n2)
                      ELSE 0
             IN  (Min(Scale, s) * 35) \div 100
        ELSE 0

shared_authors_score(authors1, authors2) ==
    IF Cardinality(authors1.all) + Cardinality(authors2.all) > 0
    THEN LET author_jaccard ==
                 (Cardinality(authors1.all \cap authors2.all) * Scale)
                     \div Cardinality(authors1.all \cup authors2.all)
         IN  (np_sqrt(author_jaccard) * 30) \div 100
    ELSE 0

\* a slip that counts only the books person 1 read and person 2 wants
cross_recs_one_way(books1, books2) ==
    Cardinality(books1.finished \cap books2.want_to_read)

cross_recs(books1, books2) ==
    Cardinality(books1.finished \cap books2.want_to_read)
        + Cardinality(books2.finished \cap books1.want_to_read)

cross_recommendations_score(books1, books2) ==
    LET total_possible == Cardinality(books1.finished) + Cardinality(books2.finished)
    IN  IF total_possible > 0
        THEN LET cross_rec_score == (cross_recs(books1, books2) * 10 * Scale) \div total_possible
             IN  (Min(Scale, cross_rec_score) * 10) \div 100
        ELSE 0

shared_tbr_score(books1, books2) ==
    IF Cardinality(books1.want_to_read) + Cardinality(books2.want_to_read) > 0
    THEN LET tbr_jaccard ==
                 (Cardinality(books1.want_to_read \cap books2.want_to_read) * Scale)
                     \div Cardinality(books1.want_to_read \cup books2.want_to_read)
         IN  (tbr_jaccard * 20) \div 100
    ELSE 0

finish_rate(books) ==
    IF Cardinality(books.all) > 0
    THEN (Cardinality(books.finished) * Scale) \div Cardinality(books.all)
    ELSE 0

\* a slip that leaves out the 0.05 weight of the reading-behaviour component
reading_behavior_unweighted(books1, books2) ==
    LET finish_rate_similarity == Scale - Abs(finish_rate(books1) - finish_rate(books2))
    IN  (finish_rate_similarity * 7) \div 10

reading_behavior_score(books1, books2) ==
    LET a1 == Cardinality(books1.all)
        a2 == Cardinality(books2.all)
        finish_rate_similarity == Scale - Abs(finish_rate(books1) - finish_rate(books2))
        size_ratio == IF Max(a1, a2) > 0 THEN (Min(a1, a2) * Scale) \div Max(a1, a2) ELSE 0
    IN  (((finish_rate_similarity * 7) \div 10 + (size_ratio * 3) \div 10) * 5) \div 100

disagreements_of(books1, books2) ==
    Cardinality(books1.finished \cap books2.did_not_finish)
        + Cardinality(books2.finished \cap books1.did_not_finish)

disagreement_penalty_score(books1, books2) ==
    -Min((15 * Scale) \div 100, (disagreements_of(books1, books2) * 2 * Scale) \div 100)

\* the dict scores, in insertion order
scores_of(df1, df2) ==
    LET books1 == books_of(df1)
        books2 == books_of(df2)
    IN  [shared_finished       |-> shared_finished_score(books1, books2),
         shared_authors        |-> shared_authors_score(authors_of(df1), authors_of(df2)),
         cross_recommendations |-> cross_recommendations_score(books1, books2),
         shared_tbr            |-> shared_tbr_score(books1, books2),
         reading_behavior      |-> reading_behavior_score(books1, books2),
         disagreement_penalty  |-> disagreement_penalty_score(books1, books2)]

\* a slip that leaves the reading-behaviour component out of the sum
total_score_without_behavior(scores) ==
    scores.shared_finished + scores.shared_authors + scores.cross_recommendations
        + scores.shared_tbr + scores.disagreement_penalty

\* sum(scores.values())
total_score_of(scores) ==
    scores.shared_finished + scores.shared_authors + scores.cross_recommendations
        + scores.shared_tbr + scores.reading_behavior + scores.disagreement_penalty

----------------------------------------------------------------------------
(* DiagnosisGenerator.  The diagnosis is a sequence of text chunks; the    *)
(* chunk "." is the only one that holds a full stop, so splitting the text *)
(* at full stops is splitting the sequence at "." chunks.  The level       *)
(* glyphs are written as ASCII names.                                      *)

level_of(score) ==
    IF score >= (70 * Scale) \div 100 THEN "EXCELLENT"
    ELSE IF score >= (50 * Scale) \div 100 THEN "GOOD"
    ELSE IF score >= (30 * Scale) \div 100 THEN "MODERATE"
    ELSE IF score >= (15 * Scale) \div 100 THEN "LOW"
    ELSE "MINIMAL"

emoji_of(level) ==
    CASE level = "EXCELLENT" -> "(star)"
      [] level = "GOOD"      -> "(smile)"
      [] level = "MODERATE"  -> "(thumbs-up)"
      [] level = "LOW"       -> "(thinking)"
      [] OTHER               -> "(sweat-smile)"

\* f"{score*100:.1f}"
format_percent(score) ==
    LET tenths == Abs(Round(score, 1000))
    IN  <<(IF score < 0 THEN "-" ELSE "") \o ToString(tenths \div 10), ".", ToString(tenths % 10)>>

generate_diagnosis(score, p1_finished, p2_finished, shared_finished, shared_authors, cross_recommendations, disagreements) ==
    LET level == level_of(score)
        size_balanced == Abs(p1_finished - p2_finished) < 20
        main == <<<<emoji_of(level), " ", level, " COMPATIBILITY (">>
                    \o format_percent(score) \o <<"%)">>>>
        overlap ==
            IF shared_finished > 10
            THEN <<<<"Strong overlap with ", ToString(shared_finished), " shared books", ".">>>>
            ELSE IF shared_finished > 5
            THEN <<<<"Decent overlap with ", ToString(shared_finished), " shared books", ".">>>>
            ELSE IF shared_finished > 2
            THEN <<<<"Some overlap with ", ToString(shared_finished), " shared books", ".">>>>
            ELSE <<<<"Limited overlap with only ", ToString(shared_finished), " shared books", ".">>>>
        size ==
            IF size_balanced THEN <<>>
            ELSE IF p1_finished > p2_finished * 2
            THEN <<<<"Large library size difference - first reader is much more prolific", ".">>>>
            ELSE IF p2_finished > p1_finished * 2
            THEN <<<<"Large library size difference - second reader is much more prolific", ".">>>>
            ELSE <<>>
        recs ==
            IF cross_recommendations > 20
            THEN <<<<"Excellent recommendation potential (", ToString(cross_recommendations), " books to share)", ".">>>>
            ELSE IF cross_recommendations > 10
            THEN <<<<"Good recommendation potential (", ToString(cross_recommendations), " books to share)", ".">>>>
            ELSE IF cross_recommendations > 5
            THEN <<<<"Some recommendation potential (", ToString(cross_recommendations), " books to share)", ".">>>>
            ELSE <<>>
        taste ==
            IF disagreements > 5
            THEN <<<<"Notable taste differences (", ToString(disagreements), " disagreements)", ".">>>>
            ELSE IF disagreements > 0
            THEN <<<<"Minor taste differences (", ToString(disagreements), " disagreements)", ".">>>>
            ELSE <<>>
        authors ==
            IF shared_authors > 5
            THEN <<<<"Very strong author overlap (", ToString(shared_authors), " shared)", ".">>>>
            ELSE IF shared_authors > 2
            THEN <<<<"Good author overlap (", ToString(shared_authors), " shared)", ".">>>>
            ELSE <<>>
    IN  str_join(<<" ">>, main \o overlap \o size \o recs \o taste \o authors)

----------------------------------------------------------------------------
(* calculate_compatibility.  The sample lists top_shared_books,            *)
(* top_shared_authors and shared_tbr_sample are not modelled.              *)

RequiredColumns == {"Title", "Author", "Status"}

\* the column lookups of calculate_compatibility raise KeyError
raises_KeyError(df1, df2) ==
    ~(RequiredColumns \subseteq df1.columns /\ RequiredColumns \subseteq df2.columns)

calculate_compatibility(person1_name, person1, person2_name, person2) ==
    LET books1 == books_of(person1)
        books2 == books_of(person2)
        shared_finished == books1.finished \cap books2.finished
        shared_authors_finished == authors_of(person1).finished \cap authors_of(person2).finished
        scores == scores_of(person1, person2)
        total_score == total_score_of(scores)
        disagreements == disagreements_of(books1, books2)
    IN  [person1 |-> person1_name,
         person2 |-> person2_name,
         compatibility_score |-> Round(total_score, 1000),
         metrics |->
            [person1_books_finished |-> Cardinality(books1.finished),
             person2_books_finished |-> Cardinality(books2.finished),
             shared_books_finished  |-> Cardinality(shared_finished),
             shared_authors         |-> Cardinality(shared_authors_finished),
             cross_recommendations  |-> cross_recs(books1, books2),
             shared_tbr             |-> Cardinality(books1.want_to_read \cap books2.want_to_read),
             disagreements          |-> disagreements],
         diagnosis |->
            generate_diagnosis(total_score,
                               Cardinality(books1.finished),
                               Cardinality(books2.finished),
                               Cardinality(shared_finished),
                               Cardinality(shared_authors_finished),
                               cross_recs(books1, books2),
                               disagreements),
         score_breakdown |-> [k \in DOMAIN scores |-> Round(scores[k], 1000)]]

\* the locals of calculate_compatibility that the result rounds
locals_of(person1, person2) ==
    [scores |-> scores_of(person1, person2),
     total_score |-> total_score_of(scores_of(person1, person2))]

----------------------------------------------------------------------------
(* BatchRunner: process_all_files, save_results, save_summary_csv.         *)
(* A csv file is [stem, readable, df]: pd.read_csv either raises           *)
(* (readable = FALSE) or yields df.  A printed line is [kind, who, n].     *)

Line(kind, who, n) == [kind |-> kind, who |-> who, n |-> n]

\* s.replace(old, new) for a non-empty old
RECURSIVE str_replace(_, _, _)
str_replace(s, old, new) ==
    IF Len(s) < Len(old) THEN s
    ELSE IF SubSeq(s, 1, Len(old)) = old
    THEN new \o str_replace(SubSeq(s, Len(old) + 1, Len(s)), old, new)
    ELSE <<Head(s)>> \o str_replace(Tail(s), old, new)

TrackedPrefix == <<"T","r","a","c","k","e","d","_","B","o","o","k","s","_","-","_">>

\* the display name process_all_files derives from a file's stem
person_name(stem) ==
    LET name == str_strip(str_replace(str_replace(stem, TrackedPrefix, <<>>), <<"_">>, <<" ">>))
    IN  IF name = <<>> THEN stem ELSE name

\* people_data[name] = df on an insertion-ordered dict kept as a sequence of items
dict_set(items, name, df) ==
    IF \E i \in DOMAIN items : items[i].name = name
    THEN [i \in DOMAIN items |-> IF items[i].name = name THEN [name |-> name, df |-> df] ELSE items[i]]
    ELSE Append(items, [name |-> name, df |-> df])

\* the load loop: people_data after the files, given people_data before them
RECURSIVE load_all(_, _)
load_all(files, people) ==
    IF files = <<>> THEN people
    ELSE load_all(Tail(files),
                  IF Head(files).readable
                  THEN dict_set(people, person_name(Head(files).stem), Head(files).df)
                  ELSE people)

\* what the load loop prints
load_lines(files) ==
    [i \in DOMAIN files |->
        IF files[i].readable
        THEN Line("loaded", <<person_name(files[i].stem)>>, Len(files[i].df.rows))
        ELSE Line("load_error", <<files[i].stem>>, 0)]

\* a slip that pairs each item with its successor only
consecutive_pairs(items) ==
    [i \in 1..(Len(items) - 1) |-> <<items[i], items[i + 1]>>]

\* itertools.combinations(items, 2), in its order
RECURSIVE combinations2(_)
combinations2(items) ==
    IF Len(items) < 2 THEN <<>>
    ELSE [i \in 1..(Len(items) - 1) |-> <<items[1], items[i + 1]>>] \o combinations2(Tail(items))

\* the pair loop without its try/except: the first failure ends the loop
RECURSIVE score_pairs_no_except(_, _)
score_pairs_no_except(pairs, out) ==
    IF pairs = <<>> THEN out
    ELSE LET p1 == Head(pairs)[1]
             p2 == Head(pairs)[2]
         IN  IF raises_KeyError(p1.df, p2.df)
             THEN [results |-> out.results,
                   printed |-> Append(out.printed, Line("pair_error", <<p1.name, p2.name>>, 0))]
             ELSE LET result == calculate_compatibility(p1.name, p1.df, p2.name, p2.df)
                  IN  score_pairs_no_except(Tail(pairs),
                          [results |-> Append(out.results, result),
                           printed |-> Append(out.printed,
                               Line("pair", <<p1.name, p2.name>>, result.compatibility_score))])

\* the pair loop: self.results and the printed lines after the pairs
RECURSIVE score_pairs(_, _)
score_pairs(pairs, out) ==
    IF pairs = <<>> THEN out
    ELSE LET p1 == Head(pairs)[1]
             p2 == Head(pairs)[2]
         IN  IF raises_KeyError(p1.df, p2.df)
             THEN score_pairs(Tail(pairs),
                      [results |-> out.results,
                       printed |-> Append(out.printed, Line("pair_error", <<p1.name, p2.name>>, 0))])
             ELSE LET result == calculate_compatibility(p1.name, p1.df, p2.name, p2.df)
                  IN  score_pairs(Tail(pairs),
                          [results |-> Append(out.results, result),
                           printed |-> Append(out.printed,
                               Line("pair", <<p1.name, p2.name>>, result.compatibility_score))])

\* len(list(combinations(csv_files, 2)))
Choose2(n) == (n * (n - 1)) \div 2

\* a slip that sorts ascending and reverses, which reverses ties
RECURSIVE sort_ascending_reversed(_)
sort_ascending_reversed(rs) ==
    IF rs = <<>> THEN <<>>
    ELSE LET rest == sort_ascending_reversed(Tail(rs))
             x == Head(rs)
             k == Cardinality({i \in DOMAIN rest : rest[i].compatibility_score >= x.compatibility_score})
         IN  SubSeq(rest, 1, k) \o <<x>> \o SubSeq(rest, k + 1, Len(rest))

\* list.sort(key=score, reverse=True): stable, by insertion from the back
RECURSIVE sort_by_score_reverse(_)
sort_by_score_reverse(rs) ==
    IF rs = <<>> THEN <<>>
    ELSE LET rest == sort_by_score_reverse(SubSeq(rs, 1, Len(rs) - 1))
             x == rs[Len(rs)]
             k == Cardinality({i \in DOMAIN rest : rest[i].compatibility_score >= x.compatibility_score})
         IN  SubSeq(rest, 1, k) \o <<x>> \o SubSeq(rest, k + 1, Len(rest))

RECURSIVE SumScores(_)
SumScores(rs) == IF rs = <<>> THEN 0 ELSE Head(rs).compatibility_score + SumScores(Tail(rs))

\* round(np.mean(scores), 1) in tenths of a percent; the mean of no score is nan
average_compatibility(rs) ==
    IF rs = <<>> THEN "nan" ELSE ToString(Round(SumScores(rs), Len(rs)))

\* one row of the summary
summary_row(result) ==
    [Person1 |-> result.person1,
     Person2 |-> result.person2,
     Compatibility |-> result.compatibility_score,
     SharedBooks |-> result.metrics.shared_books_finished,
     SharedAuthors |-> result.metrics.shared_authors,
     CanRecommend |-> result.metrics.cross_recommendations,
     Diagnosis |-> split_first(result.diagnosis, ".")]

\* a frame read from a file with the three columns
DataFrame(rows) == [columns |-> RequiredColumns, rows |-> rows]

\* Each specification below drives one part of the program and leaves the
\* variables of the other parts at these values.  BatchUnused is also the
\* state of a new analyzer: self.results = [] and nothing called yet.
NormalizeUnused ==
    /\ title = <<>>
    /\ normalized = <<>>
    /\ renormalized = <<>>

ScoreUnused ==
    /\ person1_df = DataFrame(<<>>)
    /\ person2_df = DataFrame(<<>>)
    /\ result12 = <<>>
    /\ result21 = <<>>
    /\ locals12 = <<>>
    /\ locals21 = <<>>

BatchUnused ==
    /\ results = <<>>
    /\ computed = <<>>
    /\ before = <<>>
    /\ ret = "unset"
    /\ printed = <<>>
    /\ people_data = <<>>
    /\ csv_files = <<>>
    /\ json_out = <<>>
    /\ csv_out = <<>>
    /\ files_seen = 0

----------------------------------------------------------------------------
(* calculate_compatibility applied to bounded pairs of reading lists, in   *)
(* both argument orders.  Row order decides nothing in the score, so the   *)
(* lists are enumerated with their rows in one order.                      *)

MaxRecords == 3

Statuses == <<"finished", "currently_reading", "want_to_read", "did_not_finish",
              "deleted", "on_hold">>

\* raw (Title, Author) cells; the first two titles normalize to the same key
RawBooks == << [Title |-> <<"D","u","n","e">>, Author |-> <<"H","e","r","b"," ","+"," ","L","y">>],
               [Title |-> <<"d","u","n","e","!">>, Author |-> NaN],
               [Title |-> <<" ","E","m","m","a">>, Author |-> <<"A","U","S","T","E","N">>] >>

RecordPool ==
    [i \in 1..(Len(RawBooks) * Len(Statuses)) |->
        [Title  |-> RawBooks[((i - 1) \div Len(Statuses)) + 1].Title,
         Author |-> RawBooks[((i - 1) \div Len(Statuses)) + 1].Author,
         Status |-> Statuses[((i - 1) % Len(Statuses)) + 1]]]

\* the non-decreasing sequences over 1..r of length at most n
RECURSIVE SortedSeqs(_, _)
SortedSeqs(r, n) ==
    IF n = 0 THEN {<<>>}
    ELSE LET shorter == SortedSeqs(r, n - 1)
             longest == {x \in shorter : Len(x) = n - 1}
         IN  shorter \cup
             UNION {{Append(s, c) : c \in (IF s = <<>> THEN 1 ELSE s[Len(s)])..r} : s \in longest}

ReadingLists ==
    {DataFrame([i \in DOMAIN s |-> RecordPool[s[i]]]) :
        s \in SortedSeqs(Len(RecordPool), MaxRecords)}

Name1 == <<"A","l">>
Name2 == <<"B","o">>

InitScore ==
    /\ \E df1 \in ReadingLists :
         \E df2 \in {d \in ReadingLists : Len(df1.rows) + Len(d.rows) <= MaxRecords} :
            /\ person1_df = df1
            /\ person2_df = df2
    /\ result12 = <<>>
    /\ result21 = <<>>
    /\ locals12 = <<>>
    /\ locals21 = <<>>
    /\ pc = "input"
    /\ NormalizeUnused
    /\ BatchUnused

Calculate12 ==
    /\ pc = "input"
    /\ result12' = calculate_compatibility(Name1, person1_df, Name2, person2_df)
    /\ locals12' = locals_of(person1_df, person2_df)
    /\ pc' = "scored"
    /\ UNCHANGED <<person1_df, person2_df, result21, locals21, normalizeVars, batchVars>>

Calculate21 ==
    /\ pc = "scored"
    /\ result21' = calculate_compatibility(Name2, person2_df, Name1, person1_df)
    /\ locals21' = locals_of(person2_df, person1_df)
    /\ pc' = "swapped"
    /\ UNCHANGED <<person1_df, person2_df, result12, locals12, normalizeVars, batchVars>>

NextScore == Calculate12 \/ Calculate21

SpecScore == InitScore /\ [][NextScore]_vars


\* the six components of a breakdown b lie in their ranges, unit being 1.0
InRanges(b, unit) ==
    /\ 0 <= b.shared_authors /\ 100 * b.shared_authors <= 30 * unit
    /\ 0 <= b.shared_tbr /\ 100 * b.shared_tbr <= 20 * unit
    /\ 0 <= b.shared_finished /\ 100 * b.shared_finished <= 35 * unit
    /\ 0 <= b.cross_recommendations /\ 100 * b.cross_recommendations <= 10 * unit
    /\ 0 <= b.reading_behavior /\ 100 * b.reading_behavior <= 5 * unit
    /\ -15 * unit <= 100 * b.disagreement_penalty /\ b.disagreement_penalty <= 0

\* C1: for every pair of reading lists the six pre-weighted components that
\* calculate_compatibility computes, and their rounded values in
\* score_breakdown, lie in their ranges: shared_authors in [0, 0.30],
\* shared_tbr in [0, 0.20], shared_finished in [0, 0.35], cross_recommendations
\* in [0, 0.10], reading_behavior in [0, 0.05], disagreement_penalty in [-0.15, 0].
C1_ComponentRanges ==
    /\ pc \in {"scored", "swapped"} =>
          /\ InRanges(locals12.scores, Scale)
          /\ InRanges(result12.score_breakdown, 1000)
    /\ pc = "swapped" =>
          /\ InRanges(locals21.scores, Scale)
          /\ InRanges(result21.score_breakdown, 1000)

\* C1 witness: a scored pair with full author overlap, a disagreement penalty
\* and a positive reading-behaviour component
C1_Witness ==
    /\ pc = "scored"
    /\ 100 * locals12.scores.shared_authors = 30 * Scale
    /\ locals12.scores.disagreement_penalty < 0
    /\ locals12.scores.reading_behavior > 0

\* C2: scoring is symmetric: calculate_compatibility(A, B) and
\* calculate_compatibility(B, A) give the same total, the same reported
\* compatibility_score and the same six components.
C2_Symmetry ==
    pc = "swapped" =>
        /\ locals12.total_score = locals21.total_score
        /\ locals12.scores = locals21.scores
        /\ result12.compatibility_score = result21.compatibility_score
        /\ result12.score_breakdown = result21.score_breakdown
        /\ result12.metrics.cross_recommendations = result21.metrics.cross_recommendations
        /\ result12.metrics.disagreements = result21.metrics.disagreements

\* C2 witness: two different lists scored in both orders, where only one of the
\* readers finished a book, the other wants it and also abandoned it
C2_Witness ==
    /\ pc = "swapped"
    /\ result12.metrics.person1_books_finished > 0
    /\ result12.metrics.person2_books_finished = 0
    /\ result21.metrics.person1_books_finished = 0
    /\ locals12.scores.cross_recommendations > 0
    /\ locals12.scores.disagreement_penalty < 0

BothEmpty ==
    /\ books_of(person1_df).all = {}
    /\ books_of(person2_df).all = {}

\* the clause of a diagnosis that follows the leading clause and a space
OverlapClause(diagnosis) == SubSeq(diagnosis, 9, 12)

\* C4: when both lists are empty (both `all` sets empty) every one of the six
\* components is 0, the total is 0.0%, the level is MINIMAL and the overlap
\* clause reads "Limited overlap with only 0 shared books."
C4_EmptyListsScoreZero ==
    (pc \in {"scored", "swapped"} /\ BothEmpty) =>
        /\ \A k \in DOMAIN locals12.scores : locals12.scores[k] = 0
        /\ result12.compatibility_score = 0
        /\ result12.diagnosis[3] = "MINIMAL"
        /\ OverlapClause(result12.diagnosis)
              = <<"Limited overlap with only ", "0", " shared books", ".">>

\* what does hold of two empty lists: reading_behavior is 0.035 and the rest 0
C4_EmptyListsObserved ==
    (pc \in {"scored", "swapped"} /\ BothEmpty) =>
        /\ \A k \in DOMAIN locals12.scores \ {"reading_behavior"} : locals12.scores[k] = 0
        /\ 1000 * locals12.scores.reading_behavior = 35 * Scale
        /\ result12.compatibility_score = 35
        /\ result12.diagnosis[3] = "MINIMAL"
        /\ OverlapClause(result12.diagnosis)
              = <<"Limited overlap with only ", "0", " shared books", ".">>

----------------------------------------------------------------------------
(* The scenario of identical finished sets: lists of up to                 *)
(* MaxScenarioBooks rows, row k being volume k with no author, either      *)
(* finished or in an unrecognized status (the first one possibly being     *)
(* read currently).                                                        *)

MaxScenarioBooks == 6

ScenarioTitle(k) == <<"V", "o", "l", " ", DigitChars[k + 1]>>

ScenarioStatuses(k) ==
    IF k = 1 THEN {"finished", "currently_reading", "on_hold"} ELSE {"finished", "on_hold"}

RECURSIVE ScenarioRows(_)
ScenarioRows(n) ==
    IF n = 0 THEN {<<>>}
    ELSE {Append(rows, [Title |-> ScenarioTitle(n), Author |-> NaN, Status |-> st]) :
              rows \in ScenarioRows(n - 1), st \in ScenarioStatuses(n)}

ScenarioLists == {DataFrame(rows) : rows \in UNION {ScenarioRows(n) : n \in 0..MaxScenarioBooks}}

InitScenario ==
    /\ person1_df \in ScenarioLists
    /\ person2_df \in ScenarioLists
    /\ result12 = <<>>
    /\ result21 = <<>>
    /\ locals12 = <<>>
    /\ locals21 = <<>>
    /\ pc = "input"
    /\ NormalizeUnused
    /\ BatchUnused

NextScenario == Calculate12

SpecScenario == InitScenario /\ [][NextScenario]_vars

\* identical finished sets of size 5, no authors, no want-to-read, no did-not-finish
Scenario5 ==
    /\ pc = "scored"
    /\ books_of(person1_df).finished = books_of(person2_df).finished
    /\ Cardinality(books_of(person1_df).finished) = 5
    /\ authors_of(person1_df).all = {} /\ authors_of(person2_df).all = {}
    /\ books_of(person1_df).want_to_read = {} /\ books_of(person2_df).want_to_read = {}
    /\ books_of(person1_df).did_not_finish = {} /\ books_of(person2_df).did_not_finish = {}

\* C3 as stated: for two lists with identical finished sets of size 5, no
\* authors, no want-to-read and no did-not-finish records, shared_finished is
\* 0.35, the total is 35.0% and the level is MODERATE.
C3_Total35 ==
    Scenario5 =>
        /\ 100 * locals12.scores.shared_finished = 35 * Scale
        /\ result12.compatibility_score = 350
        /\ result12.diagnosis[3] = "MODERATE"

\* C3 amended: for two such lists shared_finished is 0.35, reading_behavior is
\* positive and at most 0.05 and every other component is 0, so the total is
\* 35% plus the reading-behaviour component: reported between 35.0% and 40.0%,
\* and 40.0% when the lists hold nothing but those five books; the level is
\* MODERATE.
C3_Total35PlusBehavior ==
    Scenario5 =>
        /\ 100 * locals12.scores.shared_finished = 35 * Scale
        /\ result12.score_breakdown.shared_finished = 350
        /\ locals12.scores.reading_behavior > 0
        /\ 100 * locals12.scores.reading_behavior <= 5 * Scale
        /\ locals12.total_score
              = locals12.scores.shared_finished + locals12.scores.reading_behavior
        /\ result12.compatibility_score \in 350..400
        /\ (Cardinality(books_of(person1_df).all) = 5 /\ Cardinality(books_of(person2_df).all) = 5)
              => result12.compatibility_score = 400
        /\ result12.diagnosis[3] = "MODERATE"

\* C3 witness: the scenario with lists of different sizes, scored below 40.0%
C3_Witness ==
    /\ Scenario5
    /\ Cardinality(books_of(person1_df).all) = 5
    /\ Cardinality(books_of(person2_df).all) = 6
    /\ result12.compatibility_score = 392

----------------------------------------------------------------------------
(* The analyzer driven as __main__ drives it: process_all_files, then, if  *)
(* it returned a non-empty list, save_results and save_summary_csv.  A     *)
(* caller of the class may call process_all_files again on the same        *)
(* analyzer before it looks at the result; it stops once it has handed     *)
(* over MaxFilesSeen files.  glob lists the files of a directory in the    *)
(* order of FileStems.                                                     *)

MaxFiles == 3
MaxFilesSeen == 4

FileStems == << TrackedPrefix \o <<"A","l">>,
                <<"A","l">>,
                TrackedPrefix \o <<"B","o","_","L","i">>,
                <<"_">> >>

ListA == DataFrame(<< [Title |-> <<"D","u","n","e">>, Author |-> <<"H","e","r","b">>,
                       Status |-> "finished"] >>)

ListB == DataFrame(<< [Title |-> <<"E","m","m","a">>, Author |-> <<"A","u","s","t","e","n">>,
                       Status |-> "currently_reading"],
                      [Title |-> <<"D","u","n","e","?">>, Author |-> <<"h","e","r","b"," ","+","x">>,
                       Status |-> "want_to_read"] >>)

\* a file whose header has no Status column
NoStatusColumn == [columns |-> {"Title", "Author"}, rows |-> <<>>]

FileContents ==
    { [readable |-> FALSE, df |-> DataFrame(<<>>)],
      [readable |-> TRUE, df |-> NoStatusColumn],
      [readable |-> TRUE, df |-> ListA],
      [readable |-> TRUE, df |-> ListB] }

RECURSIVE DirectoriesOver(_)
DirectoriesOver(k) ==
    IF k = 0 THEN {<<>>}
    ELSE LET without == DirectoriesOver(k - 1)
         IN  without \cup
             {Append(d, [stem |-> FileStems[k], readable |-> c.readable, df |-> c.df]) :
                 d \in {x \in without : Len(x) < MaxFiles}, c \in FileContents}

Directories == DirectoriesOver(Len(FileStems))

\* analyzer = ReadingCompatibilityAnalyzer()
Init ==
    /\ pc = "process"
    /\ BatchUnused
    /\ NormalizeUnused
    /\ ScoreUnused

process_all_files(files) ==
    IF Len(files) < 2
    THEN /\ printed' = <<Line("need_two_files", <<>>, Len(files))>>
         /\ ret' = "None"
         /\ people_data' = <<>>
         /\ UNCHANGED <<results, computed>>
    ELSE LET people == load_all(files, <<>>)
             out == score_pairs(combinations2(people),
                        [results |-> results,
                         printed |-> <<Line("found", <<>>, Len(files)),
                                       Line("will_calculate", <<>>, Choose2(Len(files)))>>
                                     \o load_lines(files)
                                     \o <<Line("calculating", <<>>, 0)>>])
         IN  /\ people_data' = people
             /\ results' = out.results
             /\ computed' = computed \o SubSeq(out.results, Len(results) + 1, Len(out.results))
             /\ printed' = out.printed
             /\ ret' = "results"

ProcessAllFiles ==
    /\ pc = "process"
    /\ \E files \in Directories :
          /\ files_seen + Len(files) <= MaxFilesSeen
          /\ csv_files' = files
          /\ files_seen' = files_seen + Len(files)
          /\ before' = results
          /\ process_all_files(files)
    /\ UNCHANGED <<pc, json_out, csv_out, normalizeVars, scoreVars>>

\* `if results:` in __main__
CheckResults ==
    /\ pc = "process"
    /\ ret # "unset"
    /\ pc' = IF ret = "results" /\ results # <<>> THEN "save_results" ELSE "done"
    /\ UNCHANGED <<batchVars, normalizeVars, scoreVars>>

save_results ==
    LET sorted == sort_by_score_reverse(results)
    IN  /\ results' = sorted
        /\ json_out' = [total_pairings |-> Len(sorted),
                        average_compatibility |-> average_compatibility(sorted),
                        results |-> sorted]
        /\ printed' = <<Line("results_saved", <<>>, 0)>>

SaveResults ==
    /\ pc = "save_results"
    /\ save_results
    /\ pc' = "save_summary_csv"
    /\ UNCHANGED <<computed, before, ret, people_data, csv_files, csv_out, files_seen,
                   normalizeVars, scoreVars>>

save_summary_csv ==
    LET summary_data == [i \in DOMAIN results |-> summary_row(results[i])]
    IN  /\ csv_out' = summary_data
        /\ printed' = <<Line("summary_saved", <<>>, 0)>>
                        \o [i \in 1..Min(10, Len(summary_data)) |->
                               Line("top", <<summary_data[i].Person1, summary_data[i].Person2>>,
                                    summary_data[i].Compatibility)]

SaveSummaryCsv ==
    /\ pc = "save_summary_csv"
    /\ save_summary_csv
    /\ pc' = "done"
    /\ UNCHANGED <<results, computed, before, ret, people_data, csv_files, json_out, files_seen,
                   normalizeVars, scoreVars>>

Next == ProcessAllFiles \/ CheckResults \/ SaveResults \/ SaveSummaryCsv

Spec == Init /\ [][Next]_vars

\* a state right after a call of process_all_files
Called == pc = "process" /\ ret # "unset"

ReadableFiles == SelectSeq(csv_files, LAMBDA f : f.readable)

LoadedNames == {person_name(ReadableFiles[i].stem) : i \in DOMAIN ReadableFiles}

\* the frame read last under a display name
LastDf(name) ==
    LET last == CHOOSE i \in DOMAIN ReadableFiles :
                    /\ person_name(ReadableFiles[i].stem) = name
                    /\ \A j \in DOMAIN ReadableFiles :
                          person_name(ReadableFiles[j].stem) = name => j <= i
    IN  ReadableFiles[last].df

\* the unordered pairs of loaded names whose scoring raises
FailingNamePairs ==
    {p \in SUBSET LoadedNames :
        /\ Cardinality(p) = 2
        /\ \E a \in p : \E b \in p \ {a} : raises_KeyError(LastDf(a), LastDf(b))}

Appended == SubSeq(results, Len(before) + 1, Len(results))

\* C5 as stated: after process_all_files on N sources the result list has
\* exactly C(N,2) entries, whatever the source names, the outcome of loading
\* each source and the number of earlier calls on the same analyzer.
C5_ExactlyChoose2 ==
    Called => Len(results) = Choose2(Len(csv_files))

\* C5 amended: a call of process_all_files that finds N sources keeps the
\* entries of earlier calls and appends one entry per unordered pair of
\* distinct display names among the sources that loaded, except the pairs whose
\* scoring failed; that is at most C(N,2) entries, and exactly C(N,2) when
\* N >= 2 and all N sources load, under N distinct names, with all their columns.
\* With N < 2 it appends nothing and returns None.
C5_OnePerLoadedPair ==
    Called =>
        LET N == Len(csv_files)
        IN  /\ Len(results) >= Len(before)
            /\ SubSeq(results, 1, Len(before)) = before
            /\ N < 2 => Appended = <<>> /\ ret = "None"
            /\ N >= 2 =>
                  /\ ret = "results"
                  /\ Len(Appended) = Choose2(Cardinality(LoadedNames)) - Cardinality(FailingNamePairs)
                  /\ Len(Appended) <= Choose2(N)
                  /\ (  /\ Len(ReadableFiles) = N
                        /\ Cardinality(LoadedNames) = N
                        /\ \A i \in DOMAIN csv_files : RequiredColumns \subseteq csv_files[i].df.columns)
                     => Len(Appended) = Choose2(N)

\* C5 witness: a second call on the same analyzer found two sources that both
\* loaded and appended their one pair behind the earlier entries
C5_Witness ==
    /\ Called
    /\ before # <<>>
    /\ Len(csv_files) = 2
    /\ Cardinality(LoadedNames) = 2
    /\ Len(Appended) = 1

Raises(pair) == raises_KeyError(pair[1].df, pair[2].df)

ScoredPairs == SelectSeq(combinations2(people_data), LAMBDA p : ~Raises(p))

FailedPairs == SelectSeq(combinations2(people_data), Raises)

\* C6: a failure while scoring one pair is caught and reported for that pair
\* only: every other pair of loaded sources is scored and appended, in the
\* order and with the values it would have without the failing pairs, and the
\* results appended before are unchanged.
C6_PairFailureIsolated ==
    (Called /\ ret = "results") =>
        /\ SubSeq(results, 1, Len(before)) = before
        /\ Appended =
              [i \in DOMAIN ScoredPairs |->
                  calculate_compatibility(ScoredPairs[i][1].name, ScoredPairs[i][1].df,
                                          ScoredPairs[i][2].name, ScoredPairs[i][2].df)]
        /\ SelectSeq(printed, LAMBDA l : l.kind = "pair_error") =
              [i \in DOMAIN FailedPairs |->
                  Line("pair_error", <<FailedPairs[i][1].name, FailedPairs[i][2].name>>, 0)]
        /\ Len(SelectSeq(printed, LAMBDA l : l.kind = "pair")) = Len(ScoredPairs)

\* C6 witness: the first pair of a call failed and a later pair was scored
C6_Witness ==
    /\ Called
    /\ Len(people_data) = 3
    /\ Raises(combinations2(people_data)[1])
    /\ ~Raises(combinations2(people_data)[2])
    /\ Len(Appended) = 1

\* C7: whenever fewer than two sources load, process_all_files reports the
\* precondition failure and computes no pair, also when it found two or more
\* files of which fewer than two loaded.
C7_TooFewSourcesReported ==
    (Called /\ Len(ReadableFiles) < 2) =>
        /\ \E i \in DOMAIN printed : printed[i].kind = "need_two_files"
        /\ results = before

RECURSIVE ByScoreDescending(_, _)
ByScoreDescending(rs, scores) ==
    IF scores = {} THEN <<>>
    ELSE LET top == CHOOSE v \in scores : \A w \in scores : w <= v
         IN  SelectSeq(rs, LAMBDA r : r.compatibility_score = top)
                 \o ByScoreDescending(rs, scores \ {top})

\* rs by descending score, equal scores in the order they have in rs
StableDescending(rs) ==
    ByScoreDescending(rs, {rs[i].compatibility_score : i \in DOMAIN rs})

\* C8: the results written by save_results and then read by save_summary_csv
\* for the summary and the top-10 listing are sorted by compatibility_score
\* descending, records with equal scores in the order they were computed.
C8_SortedStable ==
    /\ pc \in {"save_summary_csv", "done"} /\ json_out # <<>> =>
          /\ json_out.results = StableDescending(computed)
          /\ results = StableDescending(computed)
          /\ json_out.total_pairings = Len(computed)
    /\ pc = "done" /\ json_out # <<>> =>
          LET sorted == StableDescending(computed)
          IN  /\ Len(csv_out) = Len(sorted)
              /\ \A i \in DOMAIN csv_out :
                    /\ csv_out[i].Person1 = sorted[i].person1
                    /\ csv_out[i].Person2 = sorted[i].person2
                    /\ csv_out[i].Compatibility = sorted[i].compatibility_score
              /\ SelectSeq(printed, LAMBDA l : l.kind = "top") =
                    [i \in 1..Min(10, Len(sorted)) |->
                        Line("top", <<sorted[i].person1, sorted[i].person2>>,
                             sorted[i].compatibility_score)]

\* C8 witness: the summary was written from results computed out of order, two
\* of them with the same score
C8_Witness ==
    /\ pc = "done"
    /\ Len(csv_out) = 3
    /\ computed[1].compatibility_score < computed[2].compatibility_score
    /\ computed[1].compatibility_score = computed[3].compatibility_score
    /\ computed[1] # computed[3]

\* the leading clause "{glyph} {LEVEL} COMPATIBILITY ({score*100:.1f}%)"
LeadingClause(diagnosis) == SubSeq(diagnosis, 1, 8)

\* C10: for every result the Diagnosis column written by save_summary_csv is
\* the complete leading clause of the diagnosis.
C10_DiagnosisIsLeadingClause ==
    pc = "done" =>
        \A i \in DOMAIN csv_out : csv_out[i].Diagnosis = LeadingClause(results[i].diagnosis)

\* what the column holds: the leading clause cut at the score's decimal point
C10_DiagnosisObserved ==
    pc = "done" =>
        \A i \in DOMAIN csv_out : csv_out[i].Diagnosis = SubSeq(results[i].diagnosis, 1, 5)


----------------------------------------------------------------------------
(* normalize_title applied to bounded texts, then to its own result.       *)

MaxTitleLen == 3

TitleAlphabet == {"a", "B", "7", " ", "\t", "_", "!"}

RECURSIVE TextsUpTo(_, _)
TextsUpTo(alphabet, n) ==
    IF n = 0 THEN {<<>>}
    ELSE LET shorter == TextsUpTo(alphabet, n - 1)
         IN  shorter \cup {Append(s, c) : s \in {x \in shorter : Len(x) = n - 1}, c \in alphabet}

InitNormalize ==
    /\ title \in TextsUpTo(TitleAlphabet, MaxTitleLen) \cup {NaN}
    /\ normalized = <<>>
    /\ renormalized = <<>>
    /\ pc = "input"
    /\ ScoreUnused
    /\ BatchUnused

Normalize ==
    /\ pc = "input"
    /\ normalized' = normalize_title(title)
    /\ pc' = "normalized"
    /\ UNCHANGED <<title, renormalized, scoreVars, batchVars>>

Renormalize ==
    /\ pc = "normalized"
    /\ renormalized' = normalize_title(normalized)
    /\ pc' = "renormalized"
    /\ UNCHANGED <<title, normalized, scoreVars, batchVars>>

NextNormalize == Normalize \/ Renormalize

SpecNormalize == InitNormalize /\ [][NextNormalize]_vars

NoBlanks(s) == SelectSeq(s, LAMBDA c : ~IsSpaceChar(c))

SingleSpaced(s) ==
    /\ s # <<>> => s[1] # " " /\ s[Len(s)] # " "
    /\ \A i \in 1..(Len(s) - 1) : ~(s[i] = " " /\ s[i + 1] = " ")

\* C9 as stated: for every non-missing text the result of normalize_title holds
\* only letters, digits and single interior spaces (every other character was
\* removed), and normalizing the result again changes nothing.
C9_OnlyLettersDigitsSpaces ==
    (pc # "input" /\ ~isna(title)) =>
        /\ \A i \in DOMAIN normalized :
              normalized[i] \in LetterChars \cup Range(DigitChars) \cup {" "}
        /\ SingleSpaced(normalized)
        /\ pc = "renormalized" => renormalized = normalized

\* C9 amended: for every non-missing text the result of normalize_title is the
\* lower-cased text with every character removed that is not a letter, a digit,
\* an underscore or whitespace, blank runs collapsed to one space and both ends
\* trimmed: it holds only lower-case letters, digits, underscores and single
\* interior spaces, its non-blank characters are exactly the lower-cased word
\* characters of the input in order, it has a space exactly where the input's
\* kept words were separated, and normalizing it again changes nothing.
C9_NormalizeTitle ==
    (pc # "input" /\ ~isna(title)) =>
        /\ \A i \in DOMAIN normalized :
              normalized[i] \in Range(LowerChars) \cup Range(DigitChars) \cup {"_", " "}
        /\ SingleSpaced(normalized)
        /\ NoBlanks(normalized) = SelectSeq(str_lower(title), IsWordChar)
        /\ Len(normalized) =
              Len(NoBlanks(normalized))
                + (IF NoBlanks(normalized) = <<>> THEN 0
                   ELSE Len(str_split(SelectSeq(title, LAMBDA c : IsWordChar(c) \/ IsSpaceChar(c)))) - 1)
        /\ pc = "renormalized" => renormalized = normalized

\* C9 witness: a text with an underscore, punctuation and a blank was normalized
\* twice, and the underscore survived
C9_Witness ==
    /\ pc = "renormalized"
    /\ {"_", "!", "\t"} \subseteq Range(title)
    /\ "_" \in Range(normalized)
    /\ renormalized = normalized

====
